---- MODULE Spec2Model ----
(***************************************************************************)
(* A model of pebble-tool's install command (commands/install.py) and of   *)
(* its emulator status and kill commands (commands/sdk/emulator.py).       *)
(*                                                                         *)
(* A behaviour is a sequence of command invocations over one registry.     *)
(* Everything outside the two files (the libpebble2 connection, the peer,  *)
(* the operating system, the project resolver) is the environment: each    *)
(* call into it is one step whose outcome is drawn from the outcomes that  *)
(* call can have.                                                          *)
(* The --verbose detail lines and the --logs follow-up are left out: they  *)
(* add lines after an outcome and never change one.                        *)
(***************************************************************************)
EXTENDS Integers, Sequences, FiniteSets

VARIABLES
    cmd,            \* the command invoked: "status", "install" or "kill"
    pc,             \* position in the command's code
    result,         \* "running", "ok", or the exception leaving __call__
    reason,         \* the ToolError message, "none" otherwise
    registry,       \* get_all_emulator_info(), flattened to its instances
    emptyPlatforms, \* platforms of the registry that hold no version
    \* ---- StatusCommand
    idx,            \* the instance being shown (1-based)
    qemu_alive,     \* local of _show_emulator_status
    pypkjs_alive,   \* local of _show_emulator_status
    probed,         \* roles whose pid was probed for this instance
    lastProbe,      \* the last probe of this instance: its role and outcome
    out,            \* lines printed for this instance
    reported,       \* number of "=== Emulator" blocks printed
    noEmuMsgs,      \* number of "No emulators have been started." lines
    conn,           \* the query's connection: "none", "open", "closed"
    opened,         \* connections opened for this instance
    exc,            \* exception in flight inside _show_app_status
    app_uuid,       \* local of _show_app_status
    project_match,  \* local of _show_app_status
    timedOut,       \* the wait for the run-state reply ran out
    project_uuid,   \* uuid of the project resolved from the cwd, None if none
    failedAt,       \* the step of this query that first failed, "none" if none
    failKind,       \* the exception that step raised
    closeFailed,    \* disconnect() raised in this query
    queryFailed,    \* some earlier query of this run failed
    \* ---- InstallCommand
    fresh,          \* args.fresh
    force,          \* args.force (kill)
    pbwGiven,       \* args.pbw is not None
    transport,      \* "websocket" or "serial"
    kidx,           \* _kill_emulators: instance being killed
    krole,          \* _kill_emulators: next role to signal
    killed_any,     \* local of _kill_emulators
    signals,        \* os.kill calls made, in order: instance, role, signal
    sigErr,         \* some os.kill failed with another error than ESRCH
    anyDelivered,   \* some os.kill delivered its signal
    printed,        \* lines printed by the install command
    fileOpen,       \* the bundle file handle is open
    sentMsgs,       \* install-bundle messages sent
    waits,          \* waits for the install status started
    status,         \* status code of the reply received, "none" if none
    total_size,     \* installer.total_size
    total_sent,     \* AppInstaller's running total
    bar,            \* progress bar: "new", "started", "finished"
    updates,        \* values passed to progress_bar.update, in order
    transferDone,   \* installer.install() returned normally
    installTimedOut \* the wait for the install status ran out

statusVars == <<idx, qemu_alive, pypkjs_alive, probed, lastProbe, out, reported, noEmuMsgs,
                conn, opened, exc, app_uuid, project_match, timedOut,
                project_uuid, failedAt, failKind, closeFailed, queryFailed>>
installVars == <<fresh, force, pbwGiven, transport, kidx, krole, killed_any, signals,
                 sigErr, anyDelivered,
                 printed, fileOpen, sentMsgs, waits, status, total_size,
                 total_sent, bar, updates, transferDone, installTimedOut>>
vars == <<cmd, pc, result, reason, registry, emptyPlatforms, statusVars, installVars>>

----
\* Bounds of the model.
MaxInstances == 2
MaxSize == 3

\* Program constants.
None == 0
InstallTimeout == 300
AppStateTimeout == 5
Never == 0 - 1

----
\* The registry (get_all_emulator_info()), flattened to one record per
\* (platform, SDK version).  The launcher records the pypkjs port with its pid.
InstanceRecords ==
    { r \in [qemu_pid: {None, 11}, vnc: BOOLEAN, pypkjs_pid: {None, 12},
             pypkjs_port: {None, 9000}, has_ws: BOOLEAN, ws_pid: {13}] :
        r.pypkjs_pid = None => r.pypkjs_port = None }

\* What the kill loops read of an instance: the pids, and whether a
\* websockify entry is there.
KillRecords ==
    [qemu_pid: {11}, vnc: {FALSE}, pypkjs_pid: {12}, pypkjs_port: {9000},
     has_ws: BOOLEAN, ws_pid: {13}]

SeqsUpTo(S, n) == UNION { [1..k -> S] : k \in 0..n }

Uuids == {1, 2}

Line(kind, arg) == [kind |-> kind, arg |-> arg]

AppKinds == {"APP_RUNNING_CURRENT", "APP_RUNNING", "APP_IDLE", "APP_UNRESPONSIVE",
             "APP_DISCONNECTED", "APP_UNKNOWN", "APP_UNABLE"}
StateKinds == {"RUNNING", "DEGRADED_PYPKJS", "DEGRADED_QEMU", "STOPPED"}
VncKinds == {"VNC_ALIVE", "VNC_DEAD"}

KindsOf(lines, kinds) == SelectSeq(lines, LAMBDA l : l.kind \in kinds)

\* os.kill(pid, 0) behind _is_pid_running: the process is there, it is not
\* (ESRCH), or the probe fails otherwise.
ProbeOutcomes == {"alive", "dead", "error"}

\* A reply that arrives at `d` is read by a wait bounded by `timeout`.
Arrives(d, timeout) == d # Never /\ d < timeout

AppReplyDelays == {1, AppStateTimeout - 1, AppStateTimeout + 1, Never}

----
\* StatusCommand

probeVars == <<qemu_alive, pypkjs_alive, probed, lastProbe>>
queryVars == <<conn, opened, exc, app_uuid, project_match, timedOut,
               project_uuid, failedAt, failKind, closeFailed>>
countVars == <<reported, noEmuMsgs>>
frame == <<cmd, registry, emptyPlatforms, installVars>>

info == registry[idx]

NoProbe == [role |-> "none", outcome |-> "none"]

\* ProbeRaised with the probe's error taken for "not running".
ProbeRaised_Swallowed(r) == FALSE

\* _is_pid_running is called with no handler around it: what it raises
\* leaves _show_emulator_status and __call__.
ProbeRaised(r) == r = "error"

\* An exception leaves the command.
Propagate(kind) ==
    /\ pc' = "done"
    /\ result' = kind

\* if not all_info: the registry holds no platform at all.
AllInfoEmpty == registry = << >> /\ emptyPlatforms = 0

\* found_any: the loop body ran for some instance.
FoundAny == idx > 1

\* NoEmulatorsAfterLoop without the message after the loop.
NoEmulatorsAfterLoop_Never(found) == FALSE

\* if not found_any: print("No emulators have been started.")
NoEmulatorsAfterLoop(found) == ~found

\* __call__: read the registry; with nothing in it say so and return.
StatusCall ==
    /\ cmd = "status" /\ pc = "status_call"
    /\ IF AllInfoEmpty
         THEN /\ noEmuMsgs' = noEmuMsgs + 1
              /\ pc' = "done" /\ result' = "ok"
         ELSE /\ pc' = "loop" /\ result' = result
              /\ UNCHANGED noEmuMsgs
    /\ UNCHANGED <<frame, reason, idx, probeVars, out, reported, queryVars, queryFailed>>

\* __call__: the loop over the instances.
StatusLoop ==
    /\ cmd = "status" /\ pc = "loop"
    /\ IF idx <= Len(registry)
         THEN /\ pc' = "probe_qemu" /\ result' = result
              /\ UNCHANGED noEmuMsgs
         ELSE /\ pc' = "done" /\ result' = "ok"
              /\ noEmuMsgs' = IF NoEmulatorsAfterLoop(FoundAny) THEN noEmuMsgs + 1
                               ELSE noEmuMsgs
    /\ UNCHANGED <<frame, reason, idx, probeVars, out, reported, queryVars, queryFailed>>

\* qemu_alive = qemu_pid and _is_pid_running(qemu_pid)
ProbeQemu ==
    /\ cmd = "status" /\ pc = "probe_qemu"
    /\ IF info.qemu_pid = None
         THEN /\ qemu_alive' = FALSE
              /\ pc' = "probe_pypkjs"
              /\ UNCHANGED <<probed, lastProbe, result>>
         ELSE \E r \in ProbeOutcomes :
              /\ probed' = probed \cup {"qemu"}
              /\ lastProbe' = [role |-> "qemu", outcome |-> r]
              /\ IF ProbeRaised(r)
                   THEN Propagate("OSError") /\ UNCHANGED qemu_alive
                   ELSE /\ qemu_alive' = (r = "alive")
                        /\ pc' = "probe_pypkjs"
                        /\ UNCHANGED result
    /\ UNCHANGED <<frame, reason, idx, pypkjs_alive, out, countVars, queryVars, queryFailed>>

\* pypkjs_alive = pypkjs_pid and _is_pid_running(pypkjs_pid)
ProbePypkjs ==
    /\ cmd = "status" /\ pc = "probe_pypkjs"
    /\ IF info.pypkjs_pid = None
         THEN /\ pypkjs_alive' = FALSE
              /\ pc' = "show_state"
              /\ UNCHANGED <<probed, lastProbe, result>>
         ELSE \E r \in ProbeOutcomes :
              /\ probed' = probed \cup {"pypkjs"}
              /\ lastProbe' = [role |-> "pypkjs", outcome |-> r]
              /\ IF ProbeRaised(r)
                   THEN Propagate("OSError") /\ UNCHANGED pypkjs_alive
                   ELSE /\ pypkjs_alive' = (r = "alive")
                        /\ pc' = "show_state"
                        /\ UNCHANGED result
    /\ UNCHANGED <<frame, reason, idx, qemu_alive, out, countVars, queryVars, queryFailed>>

\* CompositeState with the two DEGRADED branches exchanged.
CompositeState_Swapped(qa, pa) ==
    IF qa /\ pa THEN "RUNNING"
    ELSE IF qa /\ ~pa THEN "DEGRADED_QEMU"
    ELSE IF ~qa /\ pa THEN "DEGRADED_PYPKJS"
    ELSE "STOPPED"

\* The if/elif chain on the two liveness values.
CompositeState(qa, pa) ==
    IF qa /\ pa THEN "RUNNING"
    ELSE IF qa /\ ~pa THEN "DEGRADED_PYPKJS"
    ELSE IF ~qa /\ pa THEN "DEGRADED_QEMU"
    ELSE "STOPPED"

\* The header and the status lines; a stopped instance returns here.
ShowState ==
    /\ cmd = "status" /\ pc = "show_state"
    /\ reported' = reported + 1
    /\ out' = Append(out, Line(CompositeState(qemu_alive, pypkjs_alive), None))
    /\ pc' = IF CompositeState(qemu_alive, pypkjs_alive) = "STOPPED"
               THEN "return_instance" ELSE "vnc"
    /\ UNCHANGED <<frame, result, reason, idx, probeVars, noEmuMsgs, queryVars, queryFailed>>

\* VncReported reading the websockify entry for the vnc flag.
VncReported_IfBridge(v) == v.has_ws

\* if info.get('qemu', {}).get('vnc')
VncReported(v) == v.vnc

\* The VNC line, printed when the qemu entry carries the vnc flag.
ShowVnc ==
    /\ cmd = "status" /\ pc = "vnc"
    /\ IF VncReported(info)
         THEN IF info.has_ws /\ info.ws_pid # None
              THEN \E r \in ProbeOutcomes :
                   /\ probed' = probed \cup {"websockify"}
                   /\ lastProbe' = [role |-> "websockify", outcome |-> r]
                   /\ IF ProbeRaised(r)
                        THEN Propagate("OSError") /\ UNCHANGED out
                        ELSE /\ out' = Append(out, Line(IF r = "alive" THEN "VNC_ALIVE"
                                                        ELSE "VNC_DEAD", None))
                             /\ pc' = "app_gate"
                             /\ UNCHANGED result
              ELSE /\ out' = Append(out, Line("VNC_DEAD", None))
                   /\ pc' = "app_gate"
                   /\ UNCHANGED <<probed, lastProbe, result>>
         ELSE /\ pc' = "app_gate"
              /\ UNCHANGED <<probed, lastProbe, result, out>>
    /\ UNCHANGED <<frame, reason, idx, qemu_alive, pypkjs_alive, countVars, queryVars, queryFailed>>

\* ShouldQueryApp with "or" for "and".
ShouldQueryApp_Either(qa, pa) == qa \/ pa

\* if qemu_alive and pypkjs_alive: self._show_app_status(info, verbose)
ShouldQueryApp(qa, pa) == qa /\ pa

AppGate ==
    /\ cmd = "status" /\ pc = "app_gate"
    /\ pc' = IF ShouldQueryApp(qemu_alive, pypkjs_alive) THEN "app_entry"
               ELSE "return_instance"
    /\ UNCHANGED <<frame, result, reason, idx, probeVars, out, countVars, queryVars, queryFailed>>

----
\* StatusCommand._show_app_status

appFrame == <<frame, result, reason, idx, probeVars, countVars>>

\* The first failure of the query is kept.
Fail(step, kind) ==
    /\ failedAt' = IF failedAt = "none" THEN step ELSE failedAt
    /\ failKind' = IF failedAt = "none" THEN kind ELSE failKind

\* No recorded port: say so and return, before anything is opened.
AppEntry ==
    /\ cmd = "status" /\ pc = "app_entry"
    /\ IF info.pypkjs_port = None
         THEN /\ out' = Append(out, Line("APP_UNABLE", None))
              /\ pc' = "app_returned"
         ELSE /\ pc' = "connect"
              /\ UNCHANGED out
    /\ UNCHANGED <<appFrame, queryVars, queryFailed>>

\* WebsocketTransport(...), PebbleConnection(transport), connection.connect()
Connect ==
    /\ cmd = "status" /\ pc = "connect"
    /\ \/ /\ conn' = "open"
          /\ opened' = opened + 1
          /\ pc' = "run_async"
          /\ UNCHANGED <<exc, failedAt, failKind>>
       \/ /\ exc' = "ConnectionError"
          /\ Fail("connect", "ConnectionError")
          /\ pc' = "outer_except"
          /\ UNCHANGED <<conn, opened>>
    /\ UNCHANGED <<appFrame, out, app_uuid, project_match, timedOut, project_uuid,
                   closeFailed, queryFailed>>

\* connection.run_async(): outside the try/finally that disconnects.
RunAsync ==
    /\ cmd = "status" /\ pc = "run_async"
    /\ \/ /\ pc' = "send_and_read"
          /\ UNCHANGED <<exc, failedAt, failKind>>
       \/ \E k \in {"Other"} :
          /\ exc' = k
          /\ Fail("run_async", k)
          /\ pc' = "outer_except"
    /\ UNCHANGED <<appFrame, out, conn, opened, app_uuid, project_match, timedOut,
                   project_uuid, closeFailed, queryFailed>>

\* connection.send_and_read(..., timeout=5) and response.data.uuid
SendAndRead ==
    /\ cmd = "status" /\ pc = "send_and_read"
    /\ \/ \E d \in AppReplyDelays :
          /\ timedOut' = ~Arrives(d, AppStateTimeout)
          /\ IF Arrives(d, AppStateTimeout)
               THEN /\ \E u \in Uuids \cup {None} : app_uuid' = u
                    /\ pc' = "check_project"
                    /\ UNCHANGED <<exc, failedAt, failKind>>
               ELSE /\ exc' = "TimeoutError"
                    /\ Fail("reply", "TimeoutError")
                    /\ pc' = "on_timeout"
                    /\ UNCHANGED app_uuid
       \/ \E k \in {"ConnectionError", "Other"} :
          /\ exc' = k
          /\ Fail("exchange", k)
          /\ pc' = "finally"
          /\ UNCHANGED <<app_uuid, timedOut>>
    /\ UNCHANGED <<appFrame, out, conn, opened, project_match, project_uuid,
                   closeFailed, queryFailed>>

\* PebbleProject() for the current directory: a project with its uuid, "not
\* a project" (InvalidProjectException), or any other failure.
ResolverOutcomes == {"project", "not_a_project", "error"}

\* _check_project_match: project.uuid == app_uuid, False when not a project.
ProjectMatch(resolved, puuid, auuid) ==
    IF resolved = "project" THEN puuid = auuid ELSE FALSE

CheckProject ==
    /\ cmd = "status" /\ pc = "check_project"
    /\ \E r \in ResolverOutcomes :
          IF r = "error"
          THEN /\ exc' = "Other"
               /\ Fail("resolve", "Other")
               /\ pc' = "finally"
               /\ UNCHANGED <<project_match, project_uuid>>
          ELSE /\ \E p \in (IF r = "project" THEN Uuids ELSE {None}) :
                    /\ project_uuid' = p
                    /\ project_match' = ProjectMatch(r, p, app_uuid)
               /\ pc' = "print_app"
               /\ UNCHANGED <<exc, failedAt, failKind>>
    /\ UNCHANGED <<appFrame, out, conn, opened, app_uuid, timedOut,
                   closeFailed, queryFailed>>

\* The line for a reply: if app_uuid / if project_match / else.
AppLine(auuid, match) ==
    IF auuid # None
    THEN IF match THEN Line("APP_RUNNING_CURRENT", auuid)
                  ELSE Line("APP_RUNNING", auuid)
    ELSE Line("APP_IDLE", None)

PrintApp ==
    /\ cmd = "status" /\ pc = "print_app"
    /\ out' = Append(out, AppLine(app_uuid, project_match))
    /\ pc' = "finally"
    /\ UNCHANGED <<appFrame, queryVars, queryFailed>>

\* except TimeoutError
OnTimeout ==
    /\ cmd = "status" /\ pc = "on_timeout"
    /\ out' = Append(out, Line("APP_UNRESPONSIVE", None))
    /\ exc' = "none"
    /\ queryFailed' = TRUE
    /\ pc' = "finally"
    /\ UNCHANGED <<appFrame, conn, opened, app_uuid, project_match, timedOut,
                   project_uuid, failedAt, failKind, closeFailed>>

\* finally: connection.disconnect().  A disconnect that raises replaces the
\* exception in flight and leaves the connection as it was.
Finally ==
    /\ cmd = "status" /\ pc = "finally"
    /\ \/ /\ conn' = "closed"
          /\ pc' = IF exc = "none" THEN "app_returned" ELSE "outer_except"
          /\ UNCHANGED <<exc, failedAt, failKind, closeFailed>>
       \/ \E k \in {"ConnectionError", "Other"} :
          /\ exc' = k
          /\ Fail("close", k)
          /\ closeFailed' = TRUE
          /\ conn' = conn
          /\ pc' = "outer_except"
    /\ UNCHANGED <<appFrame, out, opened, app_uuid, project_match, timedOut,
                   project_uuid, queryFailed>>

\* Handles without the except Exception clause.
Handles_OnlyConnectionError(e) == e = "ConnectionError"

\* except ConnectionError / except Exception: every exception kind the query
\* can raise is an Exception, so one of the two handlers takes it.
Handles(e) == e \in {"ConnectionError", "TimeoutError", "Other"}

\* The line of the handler that takes `e`.
HandlerLine(e) ==
    IF e = "ConnectionError" THEN Line("APP_DISCONNECTED", None)
    ELSE Line("APP_UNKNOWN", None)

OuterExcept ==
    /\ cmd = "status" /\ pc = "outer_except"
    /\ IF Handles(exc)
         THEN /\ out' = Append(out, HandlerLine(exc))
              /\ exc' = "none"
              /\ queryFailed' = TRUE
              /\ pc' = "app_returned"
              /\ UNCHANGED result
         ELSE /\ Propagate(exc)
              /\ UNCHANGED <<out, exc, queryFailed>>
    /\ UNCHANGED <<frame, reason, idx, probeVars, countVars, conn, opened, app_uuid,
                   project_match, timedOut, project_uuid, failedAt, failKind, closeFailed>>

\* _show_emulator_status returns; the loop moves on with fresh locals.
ReturnInstance ==
    /\ cmd = "status" /\ pc \in {"return_instance", "app_returned"}
    /\ idx' = idx + 1
    /\ qemu_alive' = FALSE /\ pypkjs_alive' = FALSE /\ probed' = {}
    /\ lastProbe' = NoProbe
    /\ out' = << >>
    /\ conn' = "none" /\ opened' = 0 /\ exc' = "none"
    /\ app_uuid' = None /\ project_match' = FALSE /\ timedOut' = FALSE
    /\ project_uuid' = None /\ failedAt' = "none" /\ failKind' = "none"
    /\ closeFailed' = FALSE
    /\ pc' = "loop"
    /\ UNCHANGED <<frame, result, reason, countVars, queryFailed>>

NextStatus ==
    \/ StatusCall \/ StatusLoop \/ ProbeQemu \/ ProbePypkjs \/ ShowState
    \/ ShowVnc \/ AppGate \/ AppEntry \/ Connect \/ RunAsync \/ SendAndRead
    \/ CheckProject \/ PrintApp \/ OnTimeout \/ Finally \/ OuterExcept
    \/ ReturnInstance

----
\* InstallCommand

iframe == <<cmd, registry, emptyPlatforms, statusVars, fresh, force, pbwGiven, transport,
           total_size>>
killVars == <<kidx, krole, killed_any, signals, sigErr, anyDelivered>>
wsVars == <<fileOpen, sentMsgs, waits, status, installTimedOut>>
serialVars == <<total_sent, bar, updates, transferDone>>

\* A ToolError leaves the command with its message.
RaiseToolError(msg) ==
    /\ pc' = "done"
    /\ result' = "ToolError"
    /\ reason' = msg

\* __call__: if args.fresh: self._kill_emulators()
InstallCall ==
    /\ cmd = "install" /\ pc = "install_call"
    /\ pc' = IF fresh THEN "kill_loop" ELSE "setup"
    /\ UNCHANGED <<iframe, result, reason, killVars, printed, wsVars, serialVars>>

\* os.kill(pid, SIGTERM): delivered, no such process, or another OS error.
KillOutcomes == {"delivered", "ESRCH", "error"}

\* KillResult giving True also when there was no such process.
KillResult_Always(o) == TRUE

\* _kill_if_running: True when delivered, False on ESRCH.
KillResult(o) == o = "delivered"

\* _kill_if_running: if e.errno == errno.ESRCH: return False; else raise
KillRaises(o) == o = "error"

\* The role signalled after `role` for the instance `v`, "next" when done.
NextRole(v, role) ==
    IF role = "qemu" THEN "pypkjs"
    ELSE IF role = "pypkjs" /\ v.has_ws THEN "websockify"
    ELSE "next"

\* _kill_emulators: one _kill_if_running call of the loop.
KillIfRunning ==
    /\ cmd = "install" /\ pc = "kill_loop" /\ kidx <= Len(registry)
    /\ signals' = Append(signals, <<kidx, krole, "SIGTERM">>)
    /\ \E o \in KillOutcomes :
       /\ sigErr' = (sigErr \/ o = "error")
       /\ anyDelivered' = (anyDelivered \/ o = "delivered")
       /\ IF KillRaises(o)
          THEN /\ Propagate("OSError")
               /\ UNCHANGED <<kidx, krole, killed_any>>
          ELSE /\ killed_any' = (killed_any \/ KillResult(o))
               /\ IF NextRole(registry[kidx], krole) = "next"
                    THEN kidx' = kidx + 1 /\ krole' = "qemu"
                    ELSE kidx' = kidx /\ krole' = NextRole(registry[kidx], krole)
               /\ UNCHANGED <<pc, result>>
    /\ UNCHANGED <<iframe, reason, printed, wsVars, serialVars>>

\* _kill_emulators: after the loop.
KillDone ==
    /\ cmd = "install" /\ pc = "kill_loop" /\ kidx > Len(registry)
    /\ printed' = IF killed_any THEN Append(printed, "Killed emulator for fresh install.")
                   ELSE printed
    /\ pc' = "setup"
    /\ UNCHANGED <<iframe, result, reason, killVars, wsVars, serialVars>>

\* super().__call__(args): the connection self.pebble is set up.
SetupConnection ==
    /\ cmd = "install" /\ pc = "setup"
    /\ pc' = "dispatch"
    /\ UNCHANGED <<iframe, result, reason, killVars, printed, wsVars, serialVars>>

\* Strategy with the two branches exchanged.
Strategy_Exchanged(t) == IF t = "websocket" THEN "serial_init" ELSE "ws_open"

\* ToolAppInstaller.install: isinstance(self.pebble.transport, WebsocketTransport)
Strategy(t) == IF t = "websocket" THEN "ws_open" ELSE "serial_init"

Dispatch ==
    /\ cmd = "install" /\ pc = "dispatch"
    /\ pc' = Strategy(transport)
    /\ UNCHANGED <<iframe, result, reason, killVars, printed, wsVars, serialVars>>

\* with open(pbw, 'rb') as f: print("Installing app...")
WsOpen ==
    /\ cmd = "install" /\ pc = "ws_open"
    /\ \/ /\ fileOpen' = TRUE
          /\ printed' = Append(printed, "Installing app...")
          /\ pc' = "ws_send"
       \/ /\ pc' = "io_error"
          /\ UNCHANGED <<fileOpen, printed>>
    /\ UNCHANGED <<iframe, result, reason, killVars, sentMsgs, waits, status,
                   installTimedOut, serialVars>>

\* send_packet(WebSocketInstallBundle(pbw=f.read()), target=MessageTargetPhone())
WsSend ==
    /\ cmd = "install" /\ pc = "ws_send"
    /\ \/ /\ sentMsgs' = sentMsgs + 1
          /\ pc' = "ws_wait"
          /\ UNCHANGED <<fileOpen, result>>
       \/ /\ fileOpen' = FALSE
          /\ pc' = "io_error"
          /\ UNCHANGED <<sentMsgs, result>>
       \/ /\ fileOpen' = FALSE
          /\ Propagate("ConnectionError")
          /\ UNCHANGED sentMsgs
    /\ UNCHANGED <<iframe, reason, killVars, printed, waits, status, installTimedOut,
                   serialVars>>

InstallReplyDelays == {1, InstallTimeout - 1, InstallTimeout + 1, Never}

StatusCodes == {"Success", "Failed"}

\* read_transport_message(MessageTargetPhone, WebSocketInstallStatus, timeout=300)
\* and except TimeoutError
WsWait ==
    /\ cmd = "install" /\ pc = "ws_wait"
    /\ waits' = waits + 1
    /\ \/ \E d \in InstallReplyDelays :
          /\ installTimedOut' = ~Arrives(d, InstallTimeout)
          /\ IF Arrives(d, InstallTimeout)
               THEN /\ \E c \in StatusCodes : status' = c
                    /\ pc' = "ws_check"
                    /\ UNCHANGED <<fileOpen, result, reason>>
               ELSE /\ fileOpen' = FALSE
                    /\ RaiseToolError("Timed out waiting for install confirmation.")
                    /\ UNCHANGED status
       \/ /\ fileOpen' = FALSE
          /\ Propagate("ConnectionError")
          /\ UNCHANGED <<status, installTimedOut, reason>>
    /\ UNCHANGED <<iframe, killVars, printed, sentMsgs, serialVars>>

\* Succeeded taking any reply for a success.
Succeeded_AnyReply(code) == code # "none"

\* if result.status != WebSocketInstallStatus.StatusCode.Success
Succeeded(code) == code = "Success"

\* WsCheck sending the bundle again after a failed status.
WsCheck_Retry ==
    /\ cmd = "install" /\ pc = "ws_check"
    /\ IF Succeeded(status)
         THEN /\ printed' = Append(printed, "App install succeeded.")
              /\ pc' = "done" /\ result' = "ok" /\ fileOpen' = FALSE
         ELSE /\ pc' = "ws_send"
              /\ UNCHANGED <<printed, result, fileOpen>>
    /\ UNCHANGED <<iframe, reason, killVars, sentMsgs, waits, status, installTimedOut,
                   serialVars>>

\* if result.status != Success: raise ToolError(...) else: print(...)
WsCheck ==
    /\ cmd = "install" /\ pc = "ws_check"
    /\ fileOpen' = FALSE
    /\ IF Succeeded(status)
         THEN /\ printed' = Append(printed, "App install succeeded.")
              /\ pc' = "done" /\ result' = "ok"
              /\ UNCHANGED reason
         ELSE /\ RaiseToolError("App install failed.")
              /\ UNCHANGED printed
    /\ UNCHANGED <<iframe, killVars, sentMsgs, waits, status, installTimedOut, serialVars>>

\* IOErrorMessage giving the project directory message whatever args.pbw.
IOErrorMessage_ProjectDir(given) ==
    "You must either run this command from a project directory or specify the pbw to install."

\* except IOError as e: the message depends on args.pbw.
IOErrorMessage(given) ==
    IF ~given THEN "You must either run this command from a project directory or specify the pbw to install."
    ELSE "str(e)"

IOErrorHandler ==
    /\ cmd = "install" /\ pc = "io_error"
    /\ RaiseToolError(IOErrorMessage(pbwGiven))
    /\ UNCHANGED <<iframe, killVars, printed, wsVars, serialVars>>

\* AppInstaller(pebble, pbw), progress_bar.maxval, progress_bar.start(),
\* register_handler("progress", ...)
SerialInit ==
    /\ cmd = "install" /\ pc = "serial_init"
    /\ \/ /\ bar' = "started"
          /\ pc' = "serial_transfer"
       \/ /\ pc' = "io_error"
          /\ UNCHANGED bar
    /\ UNCHANGED <<iframe, result, reason, killVars, printed, wsVars, total_sent,
                   updates, transferDone>>

\* ProgressValue passing the chunk size on.
ProgressValue_Sent(sent, totalSent, totalSize) == sent

\* _handle_pp_progress(sent, total_sent, total_size): progress_bar.update(total_sent)
ProgressValue(sent, totalSent, totalSize) == totalSent

\* What the transfer can raise.
TransferErrors == {"AppInstallError", "ConnectionError", "TimeoutError"}

\* installer.install(): one chunk goes out and the handler runs, or the
\* transfer fails, or (everything sent) it returns.
SerialTransfer ==
    /\ cmd = "install" /\ pc = "serial_transfer"
    /\ \/ /\ total_sent < total_size
          /\ \E n \in 1..(total_size - total_sent) :
                /\ total_sent' = total_sent + n
                /\ updates' = Append(updates, ProgressValue(n, total_sent + n, total_size))
          /\ UNCHANGED <<pc, result, transferDone>>
       \/ /\ total_sent = total_size
          /\ transferDone' = TRUE
          /\ pc' = "serial_finish"
          /\ UNCHANGED <<result, total_sent, updates>>
       \/ /\ \E k \in TransferErrors : Propagate(k)
          /\ UNCHANGED <<total_sent, updates, transferDone>>
    /\ UNCHANGED <<iframe, reason, killVars, printed, wsVars, bar>>

\* self.progress_bar.finish()
SerialFinish ==
    /\ cmd = "install" /\ pc = "serial_finish"
    /\ bar' = "finished"
    /\ pc' = "done" /\ result' = "ok"
    /\ UNCHANGED <<iframe, reason, killVars, printed, wsVars, total_sent, updates,
                   transferDone>>

NextInstall ==
    \/ InstallCall \/ KillIfRunning \/ KillDone \/ SetupConnection \/ Dispatch
    \/ WsOpen \/ WsSend \/ WsWait \/ WsCheck \/ IOErrorHandler
    \/ SerialInit \/ SerialTransfer \/ SerialFinish

----
\* KillCommand

kframe == <<cmd, registry, emptyPlatforms, statusVars, fresh, force, pbwGiven, transport,
            total_size, killed_any, printed, wsVars, serialVars, reason>>

\* Signal always sending SIGTERM.
Signal_AlwaysTerm(f) == "SIGTERM"

\* if args.force: s = signal.SIGKILL else: s = signal.SIGTERM
Signal(f) == IF f THEN "SIGKILL" ELSE "SIGTERM"

\* KillCommand._kill_if_running: except OSError takes every OS error, and
\* does nothing with it whatever its errno.
KillCommandRaises(o) == FALSE

\* __call__: choose the signal and read the registry.
KillCall ==
    /\ cmd = "kill" /\ pc = "kill_call"
    /\ pc' = "kill_signals"
    /\ UNCHANGED <<kframe, result, kidx, krole, signals, sigErr, anyDelivered>>

\* __call__: one _kill_if_running call of the loop.
KillSignal ==
    /\ cmd = "kill" /\ pc = "kill_signals" /\ kidx <= Len(registry)
    /\ signals' = Append(signals, <<kidx, krole, Signal(force)>>)
    /\ \E o \in KillOutcomes :
       /\ sigErr' = (sigErr \/ o = "error")
       /\ anyDelivered' = (anyDelivered \/ o = "delivered")
       /\ IF KillCommandRaises(o)
          THEN /\ Propagate("OSError")
               /\ UNCHANGED <<kidx, krole>>
          ELSE /\ IF NextRole(registry[kidx], krole) = "next"
                    THEN kidx' = kidx + 1 /\ krole' = "qemu"
                    ELSE kidx' = kidx /\ krole' = NextRole(registry[kidx], krole)
               /\ UNCHANGED <<pc, result>>
    /\ UNCHANGED kframe

\* KillReturn forgetting the instances it has just signalled.
KillReturn_Forget ==
    /\ cmd = "kill" /\ pc = "kill_signals" /\ kidx > Len(registry)
    /\ pc' = "done" /\ result' = "ok"
    /\ registry' = << >>
    /\ UNCHANGED <<cmd, emptyPlatforms, statusVars, installVars, reason>>

\* __call__: the loop is over.
KillReturn ==
    /\ cmd = "kill" /\ pc = "kill_signals" /\ kidx > Len(registry)
    /\ pc' = "done" /\ result' = "ok"
    /\ UNCHANGED <<kframe, kidx, krole, signals, sigErr, anyDelivered>>

NextKill == KillCall \/ KillSignal \/ KillReturn

----
StatusLocals0 ==
    /\ idx = 1 /\ qemu_alive = FALSE /\ pypkjs_alive = FALSE /\ probed = {}
    /\ lastProbe = NoProbe
    /\ out = << >> /\ reported = 0 /\ noEmuMsgs = 0
    /\ conn = "none" /\ opened = 0 /\ exc = "none"
    /\ app_uuid = None /\ project_match = FALSE /\ timedOut = FALSE
    /\ project_uuid = None /\ failedAt = "none" /\ failKind = "none"
    /\ closeFailed = FALSE /\ queryFailed = FALSE

InstallLocals0 ==
    /\ kidx = 1 /\ krole = "qemu" /\ killed_any = FALSE /\ signals = << >>
    /\ sigErr = FALSE /\ anyDelivered = FALSE
    /\ printed = << >> /\ fileOpen = FALSE /\ sentMsgs = 0 /\ waits = 0
    /\ status = "none" /\ installTimedOut = FALSE
    /\ total_sent = 0 /\ bar = "new" /\ updates = << >> /\ transferDone = FALSE

InitStatus ==
    /\ cmd = "status" /\ pc = "status_call"
    /\ registry \in SeqsUpTo(InstanceRecords, MaxInstances)
    /\ fresh = FALSE /\ pbwGiven = FALSE /\ transport = "websocket" /\ total_size = 1
    /\ force = FALSE

InitInstall ==
    /\ cmd = "install" /\ pc = "install_call"
    /\ registry \in SeqsUpTo(KillRecords, MaxInstances)
    /\ fresh \in BOOLEAN /\ pbwGiven \in BOOLEAN
    /\ transport \in {"websocket", "serial"}
    /\ total_size \in 1..MaxSize
    /\ force = FALSE

InitKill ==
    /\ cmd = "kill" /\ pc = "kill_call"
    /\ registry \in SeqsUpTo(KillRecords, MaxInstances)
    /\ force \in BOOLEAN
    /\ fresh = FALSE /\ pbwGiven = FALSE /\ transport = "websocket" /\ total_size = 1

\* The registry holds at most MaxInstances platforms, some with no version.
EmptyPlatformCounts(reg) == 0..(MaxInstances - Len(reg))

Init ==
    /\ result = "running" /\ reason = "none"
    /\ StatusLocals0 /\ InstallLocals0
    /\ (InitStatus \/ InitInstall \/ InitKill)
    /\ emptyPlatforms \in EmptyPlatformCounts(registry)

\* The invocations Init allows over the registry reg.
Invocations(reg) ==
    {a \in [cmd : {"status", "install", "kill"}, fresh : BOOLEAN, force : BOOLEAN,
            pbwGiven : BOOLEAN, transport : {"websocket", "serial"},
            total_size : 1..MaxSize] :
        /\ a.cmd # "install" =>
              ~a.fresh /\ ~a.pbwGiven /\ a.transport = "websocket" /\ a.total_size = 1
        /\ a.cmd # "kill" => ~a.force
        /\ a.cmd # "status" => \A i \in 1..Len(reg) : reg[i] \in KillRecords}

\* The command is over and another one is invoked; the registry file is
\* what it was.
NextCommand ==
    /\ pc = "done"
    /\ UNCHANGED <<registry, emptyPlatforms>>
    /\ \E a \in Invocations(registry) :
          /\ cmd' = a.cmd /\ pc' = a.cmd \o "_call"
          /\ fresh' = a.fresh /\ force' = a.force /\ pbwGiven' = a.pbwGiven
          /\ transport' = a.transport /\ total_size' = a.total_size
    /\ result' = "running" /\ reason' = "none"
    /\ idx' = 1 /\ qemu_alive' = FALSE /\ pypkjs_alive' = FALSE /\ probed' = {}
    /\ lastProbe' = NoProbe
    /\ out' = << >> /\ reported' = 0 /\ noEmuMsgs' = 0
    /\ conn' = "none" /\ opened' = 0 /\ exc' = "none"
    /\ app_uuid' = None /\ project_match' = FALSE /\ timedOut' = FALSE
    /\ project_uuid' = None /\ failedAt' = "none" /\ failKind' = "none"
    /\ closeFailed' = FALSE /\ queryFailed' = FALSE
    /\ kidx' = 1 /\ krole' = "qemu" /\ killed_any' = FALSE /\ signals' = << >>
    /\ sigErr' = FALSE /\ anyDelivered' = FALSE
    /\ printed' = << >> /\ fileOpen' = FALSE /\ sentMsgs' = 0 /\ waits' = 0
    /\ status' = "none" /\ installTimedOut' = FALSE
    /\ total_sent' = 0 /\ bar' = "new" /\ updates' = << >> /\ transferDone' = FALSE

Next == NextStatus \/ NextInstall \/ NextKill \/ NextCommand

Spec == Init /\ [][Next]_vars

----
\* Properties

AppLines == KindsOf(out, AppKinds)
StateLine == out[1].kind
Showing == cmd = "status" /\ idx <= Len(registry) /\ out # << >>
Returned == cmd = "status" /\ pc = "app_returned"

\* C1: on the websocket path a wait that runs out ends the command with the
\* "timed out" ToolError, a reply with another code than Success ends it with
\* the "install failed" ToolError, and the command succeeds (and prints so)
\* only after a reply whose status code is Success.
C1_WsOutcome ==
    (cmd = "install" /\ transport = "websocket") =>
        /\ (pc = "done" /\ installTimedOut) =>
               (result = "ToolError"
                /\ reason = "Timed out waiting for install confirmation.")
        /\ (pc = "done" /\ status \notin {"none", "Success"}) =>
               (result = "ToolError" /\ reason = "App install failed.")
        /\ (result = "ok" \/ \E i \in DOMAIN printed : printed[i] = "App install succeeded.")
               => (status = "Success" /\ ~installTimedOut /\ waits = 1)

C1_Witness ==
    /\ cmd = "install" /\ transport = "websocket" /\ pc = "done"
    /\ installTimedOut /\ sentMsgs = 1 /\ result = "ToolError"

\* C2: when _show_app_status has returned, no connection it opened is open.
C2_ClosedOnReturn == Returned => conn # "open"

\* C3: the status line is STOPPED iff both liveness values are false, RUNNING
\* iff both are true, and otherwise the DEGRADED line naming the dead one; a
\* role with no recorded pid is dead and was not probed.
C3_CompositeState ==
    Showing =>
        /\ (StateLine = "STOPPED") <=> (~qemu_alive /\ ~pypkjs_alive)
        /\ (StateLine = "RUNNING") <=> (qemu_alive /\ pypkjs_alive)
        /\ (StateLine = "DEGRADED_PYPKJS") <=> (qemu_alive /\ ~pypkjs_alive)
        /\ (StateLine = "DEGRADED_QEMU") <=> (~qemu_alive /\ pypkjs_alive)
        /\ info.qemu_pid = None => (~qemu_alive /\ "qemu" \notin probed)
        /\ info.pypkjs_pid = None => (~pypkjs_alive /\ "pypkjs" \notin probed)

C3_Witness ==
    /\ Showing /\ StateLine = "DEGRADED_QEMU"
    /\ info.qemu_pid = None /\ "pypkjs" \in probed

\* C4: an install attempt that fails ends the command with a ToolError that
\* carries a reason; nothing else leaves the install.
C4_FailuresAreToolErrors ==
    (cmd = "install" /\ pc = "done" /\ result # "OSError") =>
        /\ result \in {"ok", "ToolError"}
        /\ result = "ToolError" => reason # "none"

Monotone(s) == \A i \in 1..(Len(s) - 1) : s[i] <= s[i + 1]

\* C5: on the serial path the command succeeds iff the transfer returned; the
\* values given to the progress bar never decrease and are the total size
\* exactly once on success; the bar is started before its first update and
\* finished only after the transfer returned.
C5_SerialProgress ==
    (cmd = "install" /\ transport = "serial") =>
        /\ Monotone(updates)
        /\ updates # << >> => bar # "new"
        /\ bar = "finished" => transferDone
        /\ pc = "done" => (result = "ok" <=> transferDone)
        /\ result = "ok" =>
               Cardinality({i \in DOMAIN updates : updates[i] = total_size}) = 1

C5_Witness ==
    /\ cmd = "install" /\ transport = "serial" /\ result = "ok"
    /\ Len(updates) >= 2 /\ bar = "finished"

\* C6: a connection is opened, and an app line printed, only for an instance
\* shown as RUNNING; with no recorded port the one app line is "unable to
\* query" and nothing was opened.
C6_QueryOnlyWhenRunning ==
    Showing =>
        /\ (opened > 0 \/ pc \in {"connect", "run_async", "send_and_read"}) =>
               (StateLine = "RUNNING" /\ info.pypkjs_port # None)
        /\ AppLines # << >> => StateLine = "RUNNING"
        /\ (Returned /\ info.pypkjs_port = None) =>
               (AppLines = << Line("APP_UNABLE", None) >> /\ opened = 0)

C6_Witness ==
    /\ Showing /\ pc = "return_instance"
    /\ StateLine \in {"DEGRADED_QEMU", "DEGRADED_PYPKJS"}
    /\ info.pypkjs_port # None /\ opened = 0 /\ AppLines = << >>

\* C7: when the wait for the run-state reply ran out, the query's outcome is
\* UNRESPONSIVE and nothing else, and the connection is closed on return.
C7_TimeoutIsUnresponsive ==
    (Returned /\ timedOut) =>
        (AppLines = << Line("APP_UNRESPONSIVE", None) >> /\ conn = "closed")

\* C8: nothing the query raises leaves _show_app_status: the status command
\* ends normally or with a probe's OSError, and when it ends normally every
\* instance of the registry got its block.
C8_QueryFailuresAbsorbed ==
    cmd = "status" =>
        /\ result \in {"running", "ok", "OSError"}
        /\ Returned => exc = "none"
        /\ (pc = "done" /\ result = "ok") => reported = Len(registry)

C8_Witness ==
    /\ cmd = "status" /\ idx = 2 /\ queryFailed
    /\ pc \in {"vnc", "return_instance"} /\ reported = 2

\* A reply was read in the query that has returned.
ReplyReceived == Returned /\ opened > 0 /\ failedAt \in {"none", "resolve", "close"}

\* C9: after a reply, a nil uuid gives the "no app running" line and another
\* uuid gives the RUNNING line with it, marked as the current project iff it
\* is the uuid of the project resolved from the current directory.
C9_ReplyOutcome ==
    ReplyReceived =>
        /\ AppLines # << >>
        /\ app_uuid = None => AppLines[1] = Line("APP_IDLE", None)
        /\ app_uuid # None =>
               AppLines[1] = Line(IF project_uuid = app_uuid THEN "APP_RUNNING_CURRENT"
                                  ELSE "APP_RUNNING", app_uuid)

\* C10: DISCONNECTED is printed exactly when connect() failed, and an error
\* other than a timeout raised after the connect gives UNKNOWN.
C10_DisconnectedIffConnectFailed ==
    Returned =>
        /\ (\E i \in DOMAIN out : out[i].kind = "APP_DISCONNECTED") <=> failedAt = "connect"
        /\ failedAt \in {"run_async", "exchange", "resolve"} =>
               (\E i \in DOMAIN out : out[i].kind = "APP_UNKNOWN")

\* C11: a probe that finds no such process gives False and nothing is raised;
\* a probe that fails otherwise ends the status command with its OSError,
\* and the liveness value is not set from it.
C11_ProbeErrorPropagates ==
    cmd = "status" =>
        /\ lastProbe.outcome = "error" => (pc = "done" /\ result = "OSError")
        /\ result = "OSError" => lastProbe.outcome = "error"
        /\ (lastProbe = [role |-> "qemu", outcome |-> "dead"]) =>
               (~qemu_alive /\ result = "running")
        /\ (lastProbe = [role |-> "pypkjs", outcome |-> "dead"]) =>
               (~pypkjs_alive /\ result = "running")

C11_Witness ==
    /\ cmd = "status" /\ pc = "done" /\ result = "OSError"
    /\ lastProbe = [role |-> "pypkjs", outcome |-> "error"] /\ idx = 2

\* C12: an install over the message path sends the bundle message at most
\* once and waits for the confirmation at most once, the wait coming after
\* the send; after a timeout or a status other than Success the command is
\* over with a ToolError, one message sent and one wait made; and once the
\* command has its outcome, the only step left is a new invocation.
C12_NoRetry ==
    /\ [](cmd = "install" =>
            /\ sentMsgs <= 1 /\ waits <= 1 /\ waits <= sentMsgs
            /\ (installTimedOut \/ (status # "none" /\ ~Succeeded(status) /\ pc # "ws_check")) =>
                   (pc = "done" /\ result = "ToolError" /\ sentMsgs = 1 /\ waits = 1)
            /\ (result # "running") <=> (pc = "done"))
    /\ [][(cmd = "install" /\ result # "running") =>
             (result' = "running" /\ sentMsgs' = 0 /\ waits' = 0)]_vars

C12_Witness ==
    /\ cmd = "install" /\ pc = "done" /\ result = "ToolError"
    /\ status = "Failed" /\ sentMsgs = 1 /\ waits = 1

VncLines == KindsOf(out, VncKinds)

\* C13: the step that probes the display bridge and prints the VNC line
\* leaves both liveness values and the state line as they were; the block of
\* an instance holds a VNC line only if its vnc flag is recorded, and at most
\* one; that line says the bridge is alive exactly when a websockify pid is
\* recorded and its probe found the process alive.
C13_VncIndependent ==
    /\ [](Showing =>
            /\ Len(VncLines) <= 1
            /\ VncLines # << >> => info.vnc
            /\ (info.vnc /\ pc \notin {"vnc", "done"} /\ StateLine # "STOPPED") =>
                   Len(VncLines) = 1
            /\ VncLines # << >> =>
                   ((VncLines[1].kind = "VNC_ALIVE") <=>
                       /\ info.has_ws /\ info.ws_pid # None
                       /\ lastProbe = [role |-> "websockify", outcome |-> "alive"])
            /\ StateLine = CompositeState(qemu_alive, pypkjs_alive))
    /\ [][(cmd = "status" /\ pc = "vnc") =>
             /\ qemu_alive' = qemu_alive /\ pypkjs_alive' = pypkjs_alive
             /\ Len(out') >= 1 /\ out'[1] = out[1]]_vars

C13_Witness ==
    /\ Showing /\ StateLine = "DEGRADED_QEMU" /\ pc = "app_gate"
    /\ VncLines # << >> /\ VncLines[1].kind = "VNC_ALIVE"

\* C14: no step of a status, kill or install command, with or without
\* --fresh, and no sequence of them, changes the registry: its instances,
\* their pids, ports and flags, and its platforms without versions all stay
\* what they were, whatever the probes and the signals found.
C14_RegistryReadOnly ==
    [][registry' = registry /\ emptyPlatforms' = emptyPlatforms]_vars

C14_Witness ==
    /\ cmd = "kill" /\ pc = "done" /\ result = "ok"
    /\ anyDelivered /\ Len(signals) = 5 /\ Len(registry) = 2

\* What only _install_via_websocket leaves behind, and what only
\* _install_via_serial does.
WsRan ==
    \/ pc \in {"ws_open", "ws_send", "ws_wait", "ws_check"}
    \/ fileOpen \/ sentMsgs > 0 \/ waits > 0 \/ status # "none" \/ installTimedOut
    \/ \E i \in DOMAIN printed : printed[i] \in {"Installing app...", "App install succeeded."}
SerialRan ==
    \/ pc \in {"serial_init", "serial_transfer", "serial_finish"}
    \/ bar # "new" \/ updates # << >> \/ total_sent > 0 \/ transferDone

\* C15: an install runs the message path only over a websocket transport and
\* the stream path only over another one, never both, and nothing of either
\* before the dispatch; the dispatch is entered from the connection setup
\* only, and left for the strategy of the transport, which stays the same to
\* the end of the attempt.
C15_OneStrategy ==
    /\ [](cmd = "install" =>
            /\ WsRan => (transport = "websocket" /\ ~SerialRan)
            /\ SerialRan => (transport # "websocket" /\ ~WsRan)
            /\ pc \in {"install_call", "kill_loop", "setup", "dispatch"} =>
                   (~WsRan /\ ~SerialRan)
            /\ (pc = "done" /\ result = "ok") => (WsRan \/ SerialRan))
    /\ [][cmd = "install" =>
             /\ (pc = "dispatch" /\ pc' # pc) =>
                    (pc' = IF transport = "websocket" THEN "ws_open" ELSE "serial_init")
             /\ (pc' = "dispatch" /\ pc # pc') => pc = "setup"
             /\ result' # "running" => transport' = transport]_vars

C15_Witness ==
    /\ cmd = "install" /\ transport = "serial" /\ pc = "serial_transfer"
    /\ SerialRan /\ ~WsRan /\ Len(updates) = 1

\* C16: a status command that returns has printed one block for each
\* instance of the registry, in order, and has printed "No emulators have
\* been started." once if the registry holds no instance, be it empty or made
\* of platforms without versions, and not at all otherwise; while it runs it
\* never prints the message for a registry that holds an instance, nor more
\* than once, nor a block twice.
C16_OneBlockPerInstance ==
    cmd = "status" =>
        /\ noEmuMsgs <= 1
        /\ Len(registry) > 0 => noEmuMsgs = 0
        /\ reported <= Len(registry)
        /\ pc # "done" => reported \in {idx - 1, idx}
        /\ (pc \notin {"status_call", "done"} /\ idx <= Len(registry)) =>
               (reported = idx <=> out # << >>)
        /\ (pc = "done" /\ result = "ok") =>
               /\ reported = Len(registry)
               /\ noEmuMsgs = 1 <=> Len(registry) = 0

C16_Witness ==
    /\ cmd = "status" /\ pc = "done" /\ result = "ok"
    /\ registry = << >> /\ emptyPlatforms = 1 /\ noEmuMsgs = 1

\* The os.kill calls a full pass over the first n instances makes.
InstanceSignals(reg, i, sig) ==
    << <<i, "qemu", sig>>, <<i, "pypkjs", sig>> >>
        \o (IF reg[i].has_ws THEN << <<i, "websockify", sig>> >> ELSE << >>)

RECURSIVE ExpectedSignals(_, _, _)
ExpectedSignals(reg, n, sig) ==
    IF n = 0 THEN << >>
    ELSE ExpectedSignals(reg, n - 1, sig) \o InstanceSignals(reg, n, sig)

IsPrefix(a, b) == Len(a) <= Len(b) /\ SubSeq(b, 1, Len(a)) = a

\* C17: the kill command never ends with an exception; when it returns it
\* has called os.kill once for the qemu pid and once for the pypkjs pid of
\* every instance, in registry order, and for the websockify pid of exactly
\* the instances that record one, each time with SIGKILL under --force and
\* with SIGTERM otherwise, whatever the earlier calls ran into.
C17_KillSignalsAll ==
    cmd = "kill" =>
        /\ result \in {"running", "ok"}
        /\ (result = "ok") <=> (pc = "done")
        /\ IsPrefix(signals, ExpectedSignals(registry, Len(registry),
                                             IF force THEN "SIGKILL" ELSE "SIGTERM"))
        /\ pc = "done" =>
               signals = ExpectedSignals(registry, Len(registry),
                                         IF force THEN "SIGKILL" ELSE "SIGTERM")

C17_Witness ==
    /\ cmd = "kill" /\ pc = "done" /\ result = "ok" /\ force /\ sigErr
    /\ Len(registry) = 2 /\ registry[1].has_ws /\ ~registry[2].has_ws
    /\ signals[5] = <<2, "pypkjs", "SIGKILL">> /\ ~anyDelivered

KilledMessage == "Killed emulator for fresh install."
KilledPrinted == \E i \in DOMAIN printed : printed[i] = KilledMessage

\* C18: with --fresh the kill signals are all sent before the connection is
\* set up and before any install step; _kill_if_running gives True exactly
\* for a delivered signal, and an os.kill failing otherwise than with ESRCH
\* ends the command there, with no further signal and no install step; once
\* _kill_emulators has returned, "Killed emulator for fresh install." has
\* been printed if and only if some signal was delivered; without --fresh
\* install sends no signal.
C18_FreshKillsFirst ==
    cmd = "install" =>
        /\ ~fresh => (signals = << >> /\ ~KilledPrinted)
        /\ (fresh /\ pc \notin {"install_call", "kill_loop", "done"}) =>
               signals = ExpectedSignals(registry, Len(registry), "SIGTERM")
        /\ pc \in {"install_call", "kill_loop"} => (~WsRan /\ ~SerialRan)
        /\ killed_any <=> anyDelivered
        /\ sigErr <=> (result = "OSError")
        /\ sigErr => (pc = "done" /\ ~KilledPrinted /\ ~WsRan /\ ~SerialRan)
        /\ (fresh /\ pc \notin {"install_call", "kill_loop"} /\ ~sigErr) =>
               (KilledPrinted <=> anyDelivered)

C18_Witness ==
    /\ cmd = "install" /\ fresh /\ pc = "dispatch" /\ KilledPrinted
    /\ Len(signals) = 5 /\ signals[5] = <<2, "websockify", "SIGTERM">>

\* C18, on every way out of the kill phase: once an install with --fresh
\* has left it, by returning from it or by the OSError of an os.kill, the
\* message has been printed if and only if some signal was delivered.
C18_MessageIffSignalled ==
    (cmd = "install" /\ fresh /\ pc \notin {"install_call", "kill_loop"}) =>
        (KilledPrinted <=> anyDelivered)

\* C19: when _show_app_status has returned it has printed exactly one app
\* line, also when disconnect() failed after the line of the reply or of the
\* timeout was printed.
C19_OneOutcomeLine == Returned => Len(AppLines) = 1

ProjectDirMessage ==
    "You must either run this command from a project directory or specify the pbw to install."
IOReasons == {ProjectDirMessage, "str(e)"}

\* C20: on the message path, when the bundle cannot be opened or read the
\* handler is reached with no message sent, no wait made and the file not
\* open; the command then ends with a ToolError whose message is the project
\* directory one exactly when no pbw was given, and the I/O error's own
\* otherwise; the file is open only between the open and the end of the
\* with block, and never when the command is over.
C20_BundleUnreadable ==
    (cmd = "install" /\ transport = "websocket") =>
        /\ pc = "io_error" => (sentMsgs = 0 /\ waits = 0 /\ ~fileOpen /\ result = "running")
        /\ reason \in IOReasons =>
               /\ pc = "done" /\ result = "ToolError"
               /\ sentMsgs = 0 /\ waits = 0 /\ status = "none"
               /\ (reason = ProjectDirMessage) <=> ~pbwGiven
        /\ (result = "ToolError" /\ sentMsgs = 0) => reason \in IOReasons
        /\ fileOpen => pc \in {"ws_send", "ws_wait", "ws_check"}
        /\ pc = "done" => ~fileOpen

C20_Witness ==
    /\ cmd = "install" /\ transport = "websocket" /\ pc = "done"
    /\ result = "ToolError" /\ pbwGiven /\ reason = "str(e)"
    /\ printed = << "Installing app..." >> /\ sentMsgs = 0

====
